---- MODULE Spec2Model ----
(***************************************************************************)
(* RealSync AI inference service (RealSync-AI-Prototype/serve): the        *)
(* per-session identity tracker, the classifier adapters, the per-frame    *)
(* pipeline and the REST handlers, as a state machine.                     *)
(*                                                                         *)
(* Numbers.  The code computes in floating point; the model computes in    *)
(* fixed point.  Vector components and pixel intensities are integers in   *)
(* units of 1/Scale, a cosine shift is an integer in units of              *)
(* 1/(Scale*Scale), and every value the code rounds to 4 decimals is an    *)
(* integer in units of 1/Unit4.                                            *)
(***************************************************************************)
EXTENDS Integers, Sequences, FiniteSets, TLC

\* ------------------------------------------------------------------ bounds
EmbeddingDim == 2     \* rows of the projection (128 in the code)
PixelCount == 2       \* pixels of a face crop (224*224*3 in the code)
MaxDetections == 2    \* detections the face detector emits for one frame
MaxSteps == 2         \* requests handled in one behaviour of Spec
MaxStream == 3        \* requests handled in one behaviour of SpecStream
MaxNativeScore == 2   \* largest native emotion score SpecAdapters draws
MaxWorkers == 2       \* frame requests in flight at once in SpecConc
MaxCalls == 3         \* adapter calls in one behaviour of SpecLoad

\* --------------------------------------------------------- fixed point
Scale == 1000         \* 1.0 as a vector component
Unit4 == 10000        \* 1.0 as a value rounded to 4 decimals
ShiftUnit == Scale * Scale        \* 1.0 as a cosine shift

Abs(x) == IF x < 0 THEN -x ELSE x
Min(a, b) == IF a < b THEN a ELSE b
Max(a, b) == IF a > b THEN a ELSE b

\* a / b rounded to the nearest integer, ties away from zero (b > 0)
RoundDiv(a, b) ==
    IF a >= 0 THEN (2 * a + b) \div (2 * b) ELSE -((2 * (-a) + b) \div (2 * b))

\* a / b rounded to the nearest integer, ties to even (a >= 0, b > 0):
\* Python's round()
RoundHalfEven(a, b) ==
    LET q == a \div b
        r == a % b
    IN  IF 2 * r > b \/ (2 * r = b /\ q % 2 = 1) THEN q + 1 ELSE q

RECURSIVE SqrtIter(_, _)
SqrtIter(n, x) ==
    LET y == (x + n \div x) \div 2
    IN  IF y >= x THEN x ELSE SqrtIter(n, y)

\* floor of the square root of n >= 0
Isqrt(n) == IF n = 0 THEN 0 ELSE SqrtIter(n, Min(n, 46340))

RECURSIVE SumTo(_, _)
\* f[1] + ... + f[n]
SumTo(f, n) == IF n = 0 THEN 0 ELSE f[n] + SumTo(f, n - 1)

\* np.dot of two vectors of the same length
Dot(a, b) == SumTo([i \in 1..Len(a) |-> a[i] * b[i]], Len(a))

\* the square of np.linalg.norm
NormSq(v) == Dot(v, v)

\* mutant: the normalization left out
L2Normalize_skipped(v) == v

\* v / np.linalg.norm(v) when the norm is positive, v itself otherwise
L2Normalize(v) ==
    LET norm == Isqrt(NormSq(v))
    IN  IF norm > 0 THEN [i \in 1..Len(v) |-> RoundDiv(v[i] * Scale, norm)]
        ELSE v

\* ------------------------------------------------- serve/identity_tracker.py
Sessions == {"s1", "s2"}
PixelValues == {0, 255}          \* uint8 intensities the model draws pixels from
Crops == [1..PixelCount -> PixelValues]   \* face crops, flattened
FaceIds == 0..(MaxDetections - 1)

\* the fixed random projection matrix (seed 42), entries in hundredths
ProjectionTable ==
    << <<1, 3, -2, 2>>, <<0, -3, 1, -1>>, <<2, -1, 3, 1>>, <<-3, 2, 1, -2>> >>

projection(i, j) == ProjectionTable[((i - 1) % 4) + 1][((j - 1) % 4) + 1]

\* IdentityTracker.compute_embedding: uint8 pixels to [0,1], project, L2-normalize
compute_embedding(face_rgb) ==
    LET flat == [j \in 1..Len(face_rgb) |-> RoundDiv(face_rgb[j] * Scale, 255)]
        embedding == [i \in 1..EmbeddingDim |->
            SumTo([j \in 1..Len(flat) |-> projection(i, j) * flat[j]], Len(flat))]
    IN  L2Normalize(embedding)

NoSlots == [f \in {} |-> <<>>]   \* an empty per-session dict
NoBaselines == [s \in {} |-> NoSlots]     \* self._baselines after __init__

has_baseline(store, session_id, face_id) ==
    session_id \in DOMAIN store /\ face_id \in DOMAIN store[session_id]

AlphaTenths == 1      \* alpha = 0.1
ShiftLowPct == 20     \* shift < 0.20: "low"
ShiftHighPct == 40    \* shift < 0.40: "medium", else "high"
SamePersonPct == 25   \* same_person = shift < 0.25

\* cosine_sim and shift of compare_to_baseline, in units of 1/ShiftUnit
cosine_shift(baseline, embedding) ==
    LET cosine_sim == Dot(baseline, embedding)
    IN  Max(0, Min(ShiftUnit, ShiftUnit - cosine_sim))

\* mutant: the tier bounds taken inclusively
shift_risk_inclusive(shift) ==
    IF shift * 100 <= ShiftLowPct * ShiftUnit THEN "low"
    ELSE IF shift * 100 <= ShiftHighPct * ShiftUnit THEN "medium"
    ELSE "high"

shift_risk(shift) ==
    IF shift * 100 < ShiftLowPct * ShiftUnit THEN "low"
    ELSE IF shift * 100 < ShiftHighPct * ShiftUnit THEN "medium"
    ELSE "high"

shift_same_person(shift) == shift * 100 < SamePersonPct * ShiftUnit

\* round(shift, 4), in units of 1/Unit4
round_shift(shift) == RoundHalfEven(shift, ShiftUnit \div Unit4)

\* mutant: the moving average without the re-normalization
ema_update_not_renormalized(baseline, embedding) ==
    [i \in 1..Len(baseline) |->
        RoundDiv((10 - AlphaTenths) * baseline[i] + AlphaTenths * embedding[i], 10)]

\* (1 - alpha) * baseline + alpha * embedding, then re-normalized
ema_update(baseline, embedding) ==
    L2Normalize([i \in 1..Len(baseline) |->
        (10 - AlphaTenths) * baseline[i] + AlphaTenths * embedding[i]])

FirstSighting == [embeddingShift |-> 0, samePerson |-> TRUE, riskLevel |-> "low"]

\* the result of a comparison against an existing baseline
compare_result(baseline, embedding) ==
    LET shift == cosine_shift(baseline, embedding)
    IN  [embeddingShift |-> round_shift(shift),
         samePerson |-> shift_same_person(shift),
         riskLevel |-> shift_risk(shift)]

\* self._baselines[session_id][face_id] = value, the session dict created if absent
store_put(store, session_id, face_id, value) ==
    LET slots == IF session_id \in DOMAIN store THEN store[session_id] ELSE NoSlots
        slots2 == [f \in (DOMAIN slots) \cup {face_id} |->
                      IF f = face_id THEN value ELSE slots[f]]
    IN  [s \in (DOMAIN store) \cup {session_id} |->
            IF s = session_id THEN slots2 ELSE store[s]]

NoBaseline == <<>>    \* what a lookup of a missing slot yields

\* mutant: the store keyed by face slot alone, a slot found in any session
read_baseline_any_session(store, session_id, face_id) ==
    IF \E s \in DOMAIN store : face_id \in DOMAIN store[s]
    THEN store[CHOOSE s \in DOMAIN store : face_id \in DOMAIN store[s]][face_id]
    ELSE NoBaseline

\* lines 78-83 and 92: the baseline the call finds, NoBaseline on a first sighting
read_baseline(store, session_id, face_id) ==
    IF has_baseline(store, session_id, face_id)
    THEN store[session_id][face_id] ELSE NoBaseline

\* mutant: the baseline left alone when the comparison is not samePerson
next_baseline_unless_flagged(found, embedding) ==
    IF found = NoBaseline THEN embedding
    ELSE IF shift_same_person(cosine_shift(found, embedding))
    THEN ema_update(found, embedding) ELSE found

\* mutant: the new embedding stored whether or not a baseline exists
next_baseline_overwrite(found, embedding) == embedding

\* lines 85 and 111-115: the baseline the call stores, given the one it found
next_baseline(found, embedding) ==
    IF found = NoBaseline THEN embedding ELSE ema_update(found, embedding)

\* mutant: a missing baseline defaults to the zero vector and is compared with
compare_return_zero_default(found, embedding) ==
    compare_result(IF found = NoBaseline THEN [i \in 1..Len(embedding) |-> 0]
                   ELSE found, embedding)

\* lines 86-90 and 117-121: the dict the call returns, given the baseline it found
compare_return(found, embedding) ==
    IF found = NoBaseline THEN FirstSighting ELSE compare_result(found, embedding)

\* IdentityTracker.compare_to_baseline: the new store and the returned dict
compare_to_baseline(store, session_id, face_id, embedding) ==
    LET found == read_baseline(store, session_id, face_id)
    IN  [store |-> store_put(store, session_id, face_id,
                             next_baseline(found, embedding)),
         result |-> compare_return(found, embedding)]

\* mutant: the clear keeps the baseline of the primary face slot
clear_session_keeps_primary(store, session_id) ==
    [s \in DOMAIN store |->
        IF s = session_id
        THEN [f \in (DOMAIN store[s]) \cap {0} |-> store[s][f]]
        ELSE store[s]]

\* mutant: the pop misses the session's entry
clear_session_missed(store, session_id) == store

\* mutant: clear_session does what clear_all does
clear_session_drops_all(store, session_id) == NoBaselines

\* IdentityTracker.clear_session
clear_session(store, session_id) ==
    [s \in (DOMAIN store) \ {session_id} |-> store[s]]

\* ------------------------------------------------------- serve/config.py
FACE_CONFIDENCE_THRESHOLD == 50       \* 0.5, in percent
FACE_PADDING_PERCENT == 30            \* 0.3, in percent
EMOTION_LABELS == <<"Happy", "Neutral", "Angry", "Fear", "Surprise", "Sad">>
FerKeys == <<"angry", "disgust", "fear", "happy", "sad", "surprise", "neutral">>
FER_TO_LABEL ==
    [k \in {FerKeys[i] : i \in 1..Len(FerKeys)} |->
        CASE k = "happy" -> "Happy"
          [] k = "neutral" -> "Neutral"
          [] k = "angry" -> "Angry"
          [] k = "fear" -> "Fear"
          [] k = "surprise" -> "Surprise"
          [] k = "sad" -> "Sad"
          [] k = "disgust" -> "Angry"]

Range(seq) == {seq[i] : i \in 1..Len(seq)}

\* ------------------------------------------ serve/inference.py: adapters
PredUnit == 100000    \* 1.0 as a raw MesoNet prediction (5 decimals kept)
AuthLow == 8500       \* authenticity > 0.85: "low"
AuthHigh == 7000      \* authenticity > 0.70: "medium", else "high"
FallbackAuth == 8500  \* authenticityScore of the unavailable/error fallbacks
FallbackEmotionConf == 5000   \* confidence 0.5 of the emotion fallbacks

\* _get_mesonet, _get_fer, _get_face_detector: the singleton after the call,
\* given whether the import and construction succeed in this deployment
lazy_load(singleton, available) ==
    IF singleton = "None" /\ available THEN "loaded" ELSE singleton

\* the "Failed to load" lines the same call prints: one whenever the
\* singleton is None and the import or construction raises
load_failures(singleton, available) ==
    IF singleton = "None" /\ ~available THEN 1 ELSE 0

\* mutant: the tier bounds taken inclusively
deepfake_risk_inclusive(authenticity) ==
    IF authenticity >= AuthLow THEN "low"
    ELSE IF authenticity >= AuthHigh THEN "medium"
    ELSE "high"

\* lines 198-203: the tier of an authenticity score
deepfake_risk(authenticity) ==
    IF authenticity > AuthLow THEN "low"
    ELSE IF authenticity > AuthHigh THEN "medium"
    ELSE "high"

\* mutant: the tier taken from 1 - prediction before it is rounded
analyze_deepfake_tier_unrounded(model, throws, prediction) ==
    IF model = "None"
    THEN [authenticityScore |-> FallbackAuth, riskLevel |-> "low",
          model |-> "MesoNet-4 (unavailable)"]
    ELSE IF throws
    THEN [authenticityScore |-> FallbackAuth, riskLevel |-> "low",
          model |-> "MesoNet-4 (error)"]
    ELSE [authenticityScore |->
              RoundHalfEven(PredUnit - prediction, PredUnit \div Unit4),
          riskLevel |->
              IF (PredUnit - prediction) * Unit4 > AuthLow * PredUnit
              THEN "low"
              ELSE IF (PredUnit - prediction) * Unit4 > AuthHigh * PredUnit
              THEN "medium" ELSE "high",
          model |-> "MesoNet-4"]

\* mutant: the except branch reports the crop as fake
analyze_deepfake_fail_closed(model, throws, prediction) ==
    IF model = "None"
    THEN [authenticityScore |-> FallbackAuth, riskLevel |-> "low",
          model |-> "MesoNet-4 (unavailable)"]
    ELSE IF throws
    THEN [authenticityScore |-> 0, riskLevel |-> "high",
          model |-> "MesoNet-4 (error)"]
    ELSE [authenticityScore |->
              RoundHalfEven(PredUnit - prediction, PredUnit \div Unit4),
          riskLevel |-> deepfake_risk(
              RoundHalfEven(PredUnit - prediction, PredUnit \div Unit4)),
          model |-> "MesoNet-4"]

\* analyze_deepfake on a crop for which model.predict raises (throws) or
\* returns prediction (probability of fake, in units of 1/PredUnit)
analyze_deepfake(model, throws, prediction) ==
    IF model = "None"
    THEN [authenticityScore |-> FallbackAuth, riskLevel |-> "low",
          model |-> "MesoNet-4 (unavailable)"]
    ELSE IF throws
    THEN [authenticityScore |-> FallbackAuth, riskLevel |-> "low",
          model |-> "MesoNet-4 (error)"]
    ELSE LET authenticity ==
                 RoundHalfEven(PredUnit - prediction, PredUnit \div Unit4)
         IN  [authenticityScore |-> authenticity,
              riskLevel |-> deepfake_risk(authenticity),
              model |-> "MesoNet-4"]

\* mutant: the fallback of the no-face response, confidence 0
EmotionFallback_no_confidence ==
    [label |-> "Neutral", confidence |-> 0,
     scores |-> [e \in Range(EMOTION_LABELS) |-> 0]]

\* lines 229-233, 239-243, 278-282: the fallback of analyze_emotion
EmotionFallback ==
    [label |-> "Neutral", confidence |-> FallbackEmotionConf,
     scores |-> [e \in Range(EMOTION_LABELS) |-> 0]]

RECURSIVE map_fer_scores(_, _, _)
\* lines 248-255: the scores dict (keys in insertion order, and values) after
\* the first n native keys
map_fer_scores(fer_scores, keys, n) ==
    IF n = 0 THEN [order |-> <<>>, value |-> [l \in {} |-> 0]]
    ELSE LET acc == map_fer_scores(fer_scores, keys, n - 1)
             fer_key == keys[n]
             value == fer_scores[fer_key]
         IN  IF fer_key \notin DOMAIN FER_TO_LABEL THEN acc
             ELSE LET our_label == FER_TO_LABEL[fer_key]
                  IN  IF our_label \in DOMAIN acc.value
                      THEN [order |-> acc.order,
                            value |-> [acc.value EXCEPT
                                ![our_label] = Max(acc.value[our_label], value)]]
                      ELSE [order |-> Append(acc.order, our_label),
                            value |-> [l \in (DOMAIN acc.value) \cup {our_label} |->
                                IF l = our_label THEN value ELSE acc.value[l]]]

RECURSIVE fill_labels(_, _)
\* lines 258-260: every canonical label present
fill_labels(acc, n) ==
    IF n = 0 THEN acc
    ELSE LET prev == fill_labels(acc, n - 1)
             label == EMOTION_LABELS[n]
         IN  IF label \in DOMAIN prev.value THEN prev
             ELSE [order |-> Append(prev.order, label),
                   value |-> [l \in (DOMAIN prev.value) \cup {label} |->
                       IF l = label THEN 0 ELSE prev.value[l]]]

\* max(scores, key=scores.get): the first key, in insertion order, of maximal value
dominant_label(order, value) ==
    LET best == CHOOSE i \in 1..Len(order) :
                    /\ \A j \in 1..Len(order) : value[order[j]] <= value[order[i]]
                    /\ \A j \in 1..(i - 1) : value[order[j]] < value[order[i]]
    IN  order[best]

\* lines 263-265: v / total rounded to 4 decimals when total > 0; the native
\* scores (hundredths) brought to units of 1/Unit4 otherwise
normalize_scores(order, value) ==
    LET total == SumTo([i \in 1..Len(order) |-> value[order[i]]], Len(order))
    IN  IF total > 0
        THEN [l \in DOMAIN value |-> RoundHalfEven(value[l] * Unit4, total)]
        ELSE [l \in DOMAIN value |-> value[l] * (Unit4 \div 100)]

\* analyze_emotion on a crop for which detect_emotions raises (throws) or
\* returns the list emotions of native score mappings (hundredths)
analyze_emotion(detector, throws, emotions) ==
    IF detector = "None" THEN EmotionFallback
    ELSE IF throws THEN EmotionFallback
    ELSE IF Len(emotions) = 0 THEN EmotionFallback
    ELSE LET fer_scores == emotions[1]
             keys == SelectSeq(FerKeys, LAMBDA k : k \in DOMAIN fer_scores)
             mapped == fill_labels(map_fer_scores(fer_scores, keys, Len(keys)),
                                   Len(EMOTION_LABELS))
             scores == normalize_scores(mapped.order, mapped.value)
             dominant == dominant_label(mapped.order, scores)
         IN  [label |-> dominant, confidence |-> scores[dominant],
              scores |-> scores]

\* ------------------------------------------ serve/inference.py: pipeline
MinCropSide == 20     \* a padded crop under 20 pixels on a side is skipped
AudioConf == 9000     \* audio_conf = 0.9, the placeholder
BehaviorBase == 5500  \* 0.55 of behavior_conf
BehaviorGainTenths == 4       \* 0.4 of behavior_conf
EmptyTrust == 9500    \* trustScore 0.95 of the no-face response

\* decode_frame: the image, or None for a payload that is not an image
decode_frame(frameB64) ==
    IF frameB64.kind = "image" THEN [none |-> FALSE, img |-> frameB64]
    ELSE [none |-> TRUE, img |-> frameB64]

\* mutant: the padded box not clamped to the image
padded_crop_unclamped(w, h, box) ==
    LET x == (box.xmin * w) \div 100
        y == (box.ymin * h) \div 100
        bw == (box.width * w) \div 100
        bh == (box.height * h) \div 100
        pad_w == (bw * FACE_PADDING_PERCENT) \div 100
        pad_h == (bh * FACE_PADDING_PERCENT) \div 100
    IN  [bbox |-> [x |-> x, y |-> y, w |-> bw, h |-> bh],
         rows |-> bh + 2 * pad_h, cols |-> bw + 2 * pad_w]

\* lines 140-156 of detect_faces: the padded, clamped crop of one detection
padded_crop(w, h, box) ==
    LET x == (box.xmin * w) \div 100
        y == (box.ymin * h) \div 100
        bw == (box.width * w) \div 100
        bh == (box.height * h) \div 100
        pad_w == (bw * FACE_PADDING_PERCENT) \div 100
        pad_h == (bh * FACE_PADDING_PERCENT) \div 100
        x1 == Max(0, x - pad_w)
        y1 == Max(0, y - pad_h)
        x2 == Min(w, x + bw + pad_w)
        y2 == Min(h, y + bh + pad_h)
    IN  [bbox |-> [x |-> x, y |-> y, w |-> bw, h |-> bh],
         rows |-> Max(0, y2 - y1), cols |-> Max(0, x2 - x1)]

RECURSIVE located_faces_renumbered(_, _)
\* mutant: a face numbered by its position among the faces kept so far
located_faces_renumbered(img, n) ==
    IF n = 0 THEN <<>>
    ELSE LET faces == located_faces_renumbered(img, n - 1)
             det == img.detections[n]
             crop == padded_crop(img.w, img.h, det.box)
         IN  IF det.score < FACE_CONFIDENCE_THRESHOLD THEN faces
             ELSE IF crop.rows * crop.cols = 0 \/ crop.rows < MinCropSide
                     \/ crop.cols < MinCropSide THEN faces
             ELSE Append(faces,
                    [face_id |-> Len(faces), bbox |-> crop.bbox,
                     confidence |-> det.score * (Unit4 \div 100),
                     crop |-> det.crop, fault |-> det.fault])

RECURSIVE located_faces(_, _)
\* the loop of detect_faces over the first n detections of img
located_faces(img, n) ==
    IF n = 0 THEN <<>>
    ELSE LET faces == located_faces(img, n - 1)
             det == img.detections[n]
             crop == padded_crop(img.w, img.h, det.box)
         IN  IF det.score < FACE_CONFIDENCE_THRESHOLD THEN faces
             ELSE IF crop.rows * crop.cols = 0 \/ crop.rows < MinCropSide
                     \/ crop.cols < MinCropSide THEN faces
             ELSE Append(faces,
                    [face_id |-> n - 1, bbox |-> crop.bbox,
                     confidence |-> det.score * (Unit4 \div 100),
                     crop |-> det.crop, fault |-> det.fault])

\* detect_faces: nothing when the detector is unavailable
detect_faces(detector, img) ==
    IF detector = "None" THEN <<>>
    ELSE located_faces(img, Len(img.detections))

\* mutant: the except branch reports the face as a different person
analyze_identity_fail_closed(store, session_id, face_id, face_crop, throws) ==
    IF throws
    THEN [store |-> store,
          result |-> [embeddingShift |-> Unit4, samePerson |-> FALSE,
                      riskLevel |-> "high"]]
    ELSE compare_to_baseline(store, session_id, face_id,
                             compute_embedding(face_crop))

\* analyze_identity: an exception before the tracker is reached maps to the
\* neutral result and leaves the store alone
analyze_identity(store, session_id, face_id, face_crop, throws) ==
    IF throws THEN [store |-> store, result |-> FirstSighting]
    ELSE compare_to_baseline(store, session_id, face_id,
                             compute_embedding(face_crop))

\* ---------------------------------------------- the black-box classifiers
\* What the external models return is a function of the crop alone.  These
\* stand-ins are fixed functions of the crop's pixels.
HappyScores ==
    [k \in Range(FerKeys) |->
        CASE k = "happy" -> 92 [] k = "neutral" -> 5 [] k = "surprise" -> 3
          [] OTHER -> 0]
MixedScores ==
    [k \in Range(FerKeys) |->
        CASE k = "angry" -> 10 [] k = "disgust" -> 30 [] k = "fear" -> 5
          [] k = "happy" -> 20 [] k = "sad" -> 15 [] k = "surprise" -> 7
          [] OTHER -> 13]
TiedScores ==
    [k \in Range(FerKeys) |->
        CASE k = "sad" -> 33 [] k = "neutral" -> 33 [] k = "fear" -> 33
          [] OTHER -> 0]

brightness(face_crop) ==
    SumTo([j \in 1..Len(face_crop) |-> j * face_crop[j]], Len(face_crop)) \div 255

\* model.predict(face_batch)[0][0]: probability of fake, in units of 1/PredUnit
mesonet_predict(face_crop) == (brightness(face_crop) * 11730) % PredUnit

\* detector.detect_emotions(face_crop): a list of native score mappings
\* (hundredths), empty when FER finds no face in the crop
fer_detect_emotions(face_crop) ==
    LET b == brightness(face_crop)
    IN  IF b = 0 THEN <<>>
        ELSE IF b % 3 = 1 THEN <<HappyScores>>
        ELSE IF b % 3 = 2 THEN <<MixedScores>>
        ELSE <<TiedScores>>

\* the per-face call that raises on a crop, "none" when none does
Faults == {"deepfake", "emotion", "identity"}

\* analyze_deepfake(crop) and analyze_emotion(crop) for each state of the two
\* singletons and each call that raises: evaluated once per crop
classifier_results ==
    [mesonet \in {"None", "loaded"}, fer \in {"None", "loaded"}, c \in Crops,
     fault \in Faults \cup {"none"} |->
        [deepfake |-> analyze_deepfake(mesonet, fault = "deepfake",
                                       mesonet_predict(c)),
         emotion |-> analyze_emotion(fer, fault = "emotion",
                                     fer_detect_emotions(c))]]

\* mutant: one try block around the three calls of a face, so that a call
\* that raises leaves the face with the fallback of every adapter
analyze_face_one_try(store, models, session_id, face_info) ==
    LET crop == face_info.crop
        fault == face_info.fault
        tried == classifier_results[models.mesonet, models.fer, crop, "none"]
        identity == analyze_identity(store, session_id, face_info.face_id,
                                     crop, fault # "none")
    IN  [store |-> identity.store,
         compared |-> fault = "none",
         face_result |->
            [faceId |-> face_info.face_id, bbox |-> face_info.bbox,
             confidence |-> face_info.confidence,
             emotion |-> IF fault = "none" THEN tried.emotion
                         ELSE EmotionFallback,
             identity |-> identity.result,
             deepfake |-> IF fault = "none" THEN tried.deepfake
                          ELSE analyze_deepfake(models.mesonet, TRUE, 0)]]

\* lines 335-349 of analyze_frame: the three adapter calls for one face, the
\* store after them, whether compare_to_baseline was reached, and the
\* per-face result
analyze_face(store, models, session_id, face_info) ==
    LET crop == face_info.crop
        fault == face_info.fault
        tried == classifier_results[models.mesonet, models.fer, crop, fault]
        identity == analyze_identity(store, session_id, face_info.face_id,
                                     crop, fault = "identity")
    IN  [store |-> identity.store,
         compared |-> fault # "identity",
         face_result |->
            [faceId |-> face_info.face_id, bbox |-> face_info.bbox,
             confidence |-> face_info.confidence,
             emotion |-> tried.emotion, identity |-> identity.result,
             deepfake |-> tried.deepfake]]

RECURSIVE analyze_faces(_, _, _, _, _)
\* lines 333-349 of analyze_frame: the store and face_results after n faces,
\* and the face slots compare_to_baseline was called for
analyze_faces(store, models, session_id, faces, n) ==
    IF n = 0 THEN [store |-> store, face_results |-> <<>>, compared |-> {}]
    ELSE LET before == analyze_faces(store, models, session_id, faces, n - 1)
             done == analyze_face(before.store, models, session_id, faces[n])
         IN  [store |-> done.store,
              compared |-> IF done.compared
                           THEN before.compared \cup {faces[n].face_id}
                           ELSE before.compared,
              face_results |-> Append(before.face_results, done.face_result)]

\* lines 361-366: behavior_conf and trust_score
\* mutant: the emotion confidence added to the base at full weight
behavior_conf_full_gain(emotion_conf) ==
    BehaviorBase + emotion_conf

behavior_conf(emotion_conf) ==
    BehaviorBase + RoundHalfEven(emotion_conf * BehaviorGainTenths, 10)

\* the rounded mean of the four signals, before the clamp
trust_mean(auth_score, shift, beh_conf) ==
    RoundHalfEven(auth_score + AudioConf + (Unit4 - shift) + beh_conf, 4)

trust_score(auth_score, shift, beh_conf) ==
    Max(0, Min(Unit4, trust_mean(auth_score, shift, beh_conf)))

\* mutant: the session-level view taken from the last face
aggregate_last_face(session_id, face_results) ==
    LET primary == face_results[Len(face_results)]
        auth_score == primary.deepfake.authenticityScore
        beh == behavior_conf(primary.emotion.confidence)
    IN  [sessionId |-> session_id, faces |-> face_results,
         aggregated |->
            [emotion |-> primary.emotion, identity |-> primary.identity,
             deepfake |-> primary.deepfake,
             trustScore |-> trust_score(auth_score,
                                primary.identity.embeddingShift, beh),
             confidenceLayers |->
                [audio |-> AudioConf, video |-> auth_score, behavior |-> beh]]]

\* mutant: the session-level view taken from the most confident face
aggregate_most_confident(session_id, face_results) ==
    LET primary == face_results[
            CHOOSE i \in 1..Len(face_results) :
                \A k \in 1..Len(face_results) :
                    \/ face_results[i].confidence > face_results[k].confidence
                    \/ (face_results[i].confidence = face_results[k].confidence
                        /\ i <= k)]
        auth_score == primary.deepfake.authenticityScore
        beh == behavior_conf(primary.emotion.confidence)
    IN  [sessionId |-> session_id, faces |-> face_results,
         aggregated |->
            [emotion |-> primary.emotion, identity |-> primary.identity,
             deepfake |-> primary.deepfake,
             trustScore |-> trust_score(auth_score,
                                primary.identity.embeddingShift, beh),
             confidenceLayers |->
                [audio |-> AudioConf, video |-> auth_score, behavior |-> beh]]]

\* lines 351-388: the response assembled from face_results
aggregate(session_id, face_results) ==
    LET primary == face_results[1]
        auth_score == primary.deepfake.authenticityScore
        shift == primary.identity.embeddingShift
        emotion_conf == primary.emotion.confidence
        beh == behavior_conf(emotion_conf)
    IN  [sessionId |-> session_id, faces |-> face_results,
         aggregated |->
            [emotion |-> primary.emotion, identity |-> primary.identity,
             deepfake |-> primary.deepfake,
             trustScore |-> trust_score(auth_score, shift, beh),
             confidenceLayers |->
                [audio |-> AudioConf, video |-> auth_score, behavior |-> beh]]]

\* mutant: the no-face trust score computed by the trust formula from the
\* no-face layers, (1.0 + 0.9 + 1.0 + 0.55) / 4, instead of the literal 0.95
empty_response_by_formula(session_id) ==
    [sessionId |-> session_id, faces |-> <<>>,
     aggregated |->
        [emotion |-> [label |-> "Neutral", confidence |-> 0,
                      scores |-> [e \in Range(EMOTION_LABELS) |-> 0]],
         identity |-> [embeddingShift |-> 0, samePerson |-> TRUE,
                       riskLevel |-> "low"],
         deepfake |-> [authenticityScore |-> Unit4, riskLevel |-> "low",
                       model |-> "MesoNet-4"],
         trustScore |-> trust_score(Unit4, 0, BehaviorBase),
         confidenceLayers |->
            [audio |-> AudioConf, video |-> Unit4, behavior |-> BehaviorBase]]]

\* _empty_response: the canonical no-face response
_empty_response(session_id) ==
    [sessionId |-> session_id, faces |-> <<>>,
     aggregated |->
        [emotion |-> [label |-> "Neutral", confidence |-> 0,
                      scores |-> [e \in Range(EMOTION_LABELS) |-> 0]],
         identity |-> [embeddingShift |-> 0, samePerson |-> TRUE,
                       riskLevel |-> "low"],
         deepfake |-> [authenticityScore |-> Unit4, riskLevel |-> "low",
                       model |-> "MesoNet-4"],
         trustScore |-> EmptyTrust,
         confidenceLayers |->
            [audio |-> AudioConf, video |-> Unit4, behavior |-> BehaviorBase]]]

\* mutant: the session's entry created as soon as its frame arrives
analyze_frame_session_on_arrival(store, models, session_id, frameB64) ==
    LET decoded == decode_frame(frameB64)
        entered == [s \in (DOMAIN store) \cup {session_id} |->
                       IF s \in DOMAIN store THEN store[s] ELSE NoSlots]
    IN  IF decoded.none
        THEN [store |-> entered, compared |-> {},
              result |-> _empty_response(session_id)]
        ELSE LET faces == detect_faces(models.mp, decoded.img)
             IN  IF Len(faces) = 0
                 THEN [store |-> entered, compared |-> {},
                       result |-> _empty_response(session_id)]
                 ELSE LET done == analyze_faces(entered, models, session_id,
                                                faces, Len(faces))
                      IN  [store |-> done.store, compared |-> done.compared,
                           result |-> aggregate(session_id, done.face_results)]

\* analyze_frame: the store after the frame and the response
analyze_frame(store, models, session_id, frameB64) ==
    LET decoded == decode_frame(frameB64)
    IN  IF decoded.none
        THEN [store |-> store, compared |-> {},
              result |-> _empty_response(session_id)]
        ELSE LET faces == detect_faces(models.mp, decoded.img)
             IN  IF Len(faces) = 0
                 THEN [store |-> store, compared |-> {},
                       result |-> _empty_response(session_id)]
                 ELSE LET done == analyze_faces(store, models, session_id,
                                                faces, Len(faces))
                      IN  [store |-> done.store, compared |-> done.compared,
                           result |-> aggregate(session_id, done.face_results)]

\* ------------------------------------------------------------ the state
VARIABLES
    baselines,   \* IdentityTracker._baselines: session -> face slot -> vector
    models,      \* the lazy singletons _mesonet_model, _fer_detector, _mp_face_detection
    env,         \* which classifiers can be imported and built in this deployment
    request,     \* the request handled last
    response,    \* the HTTP response to it
    pre,         \* history: the baselines as they were when that request
                 \* (in SpecConc: the requests in flight) arrived
    forgotten,   \* history: sessions cleared and not compared against since,
                 \* each with the face slots its clears dropped
    pre_forgotten,       \* history: forgotten when that request arrived
    steps,       \* history: requests handled so far
    probe,       \* a direct call of one adapter: its input and its output
    tasks,       \* the frame requests in flight: each handler's position,
                 \* its request, the baseline it read, the identity result
                 \* and (history) the requests pending when it started
    loop         \* the handler the event loop is running, 0 if none

vars ==
    <<baselines, models, env, request, response, pre, forgotten, pre_forgotten,
      steps, probe, tasks, loop>>

Workers == 1..MaxWorkers
NoResult == [riskLevel |-> "none"]

ModelNames == {"mesonet", "fer", "mp"}
Envs == [ModelNames -> BOOLEAN]

\* app.py startup(): the three singletons are pre-loaded before any request
startup(e) == [m \in ModelNames |-> lazy_load("None", e[m])]

\* the singletons after a frame: detect_faces loads the detector once the
\* payload decodes, the adapters load theirs once a face is located
models_after(singletons, e, decoded, located) ==
    [m \in ModelNames |->
        IF (m = "mp" /\ decoded) \/ (m # "mp" /\ located)
        THEN lazy_load(singletons[m], e[m]) ELSE singletons[m]]

NoRequest == [op |-> "none"]
NoResponse == [status |-> 0]
NoProbe == [adapter |-> "none"]
NoTask == [pc |-> "idle", req |-> NoRequest, found |-> NoBaseline,
           result |-> NoResult, queued |-> {}]

\* ------------------------------------------------------ inputs of Spec
OkBox == [xmin |-> 30, ymin |-> 30, width |-> 30, height |-> 30]
TinyBox == [xmin |-> 45, ymin |-> 45, width |-> 10, height |-> 10]

BlackCrop == [j \in 1..PixelCount |-> 0]

\* the per-face call that raises on a crop, and the crops one raises on
FaultCrops == {c \in Crops : \A j \in 1..PixelCount : c[j] = 255}

\* one detection of the face detector: score in percent, relative box in
\* percent of the frame, the pixels of the crop, and which of the three
\* per-face calls raises on this crop ("none": none of them)
Detections ==
    { [score |-> 40, box |-> OkBox, crop |-> BlackCrop, fault |-> "none"],
      [score |-> 90, box |-> TinyBox, crop |-> BlackCrop, fault |-> "none"] }
    \cup { [score |-> 90, box |-> OkBox, crop |-> c, fault |-> "none"] :
             c \in Crops }
    \cup { [score |-> 95, box |-> OkBox, crop |-> c, fault |-> f] :
             c \in FaultCrops, f \in Faults }

SeqsUpTo(S, n) == UNION { [1..k -> S] : k \in 0..n }

Image(dets) ==
    [kind |-> "image", w |-> 100, h |-> 100, detector_throws |-> FALSE,
     detections |-> dets]

\* frame payloads: empty, not an image, an image the detector raises on, and
\* images with up to MaxDetections detections
Frames ==
    { [kind |-> "empty"], [kind |-> "garbage"],
      [Image(<<>>) EXCEPT !.detector_throws = TRUE] }
    \cup { Image(d) : d \in SeqsUpTo(Detections, MaxDetections) }

\* a request body without the field
MissingField == "<missing>"

AnalyzeRequests ==
    { [op |-> "analyze", sessionId |-> s, frameB64 |-> f] :
        s \in Sessions, f \in Frames }
    \cup { [op |-> "analyze", sessionId |-> "", frameB64 |-> Image(<<>>)],
            [op |-> "analyze", sessionId |-> MissingField,
             frameB64 |-> Image(<<>>)],
            [op |-> "analyze", sessionId |-> "s1",
             frameB64 |-> [kind |-> "missing"]] }

\* ---------------------------------------------------- serve/app.py: routes
\* mutant: the check of the session id left out
rejection_without_session_check(req) ==
    IF req.sessionId = MissingField \/ req.frameB64.kind = "missing"
    THEN [status |-> 422, detail |-> "field required"]
    ELSE IF req.frameB64.kind = "empty"
    THEN [status |-> 400, detail |-> "frameB64 is required"]
    ELSE [status |-> 0, detail |-> ""]

\* the request validation: the body model's required fields (a request
\* without one never reaches the handler), then lines 98-102 of the handler;
\* status 0 when the request passes
rejection(req) ==
    IF req.sessionId = MissingField \/ req.frameB64.kind = "missing"
    THEN [status |-> 422, detail |-> "field required"]
    ELSE IF req.frameB64.kind = "empty"
    THEN [status |-> 400, detail |-> "frameB64 is required"]
    ELSE IF req.sessionId = ""
    THEN [status |-> 400, detail |-> "sessionId is required"]
    ELSE [status |-> 0, detail |-> ""]

\* POST /api/analyze/frame
analyze_frame_endpoint(req) ==
    /\ request' = req
    /\ pre' = baselines
    /\ pre_forgotten' = forgotten
    /\ steps' = steps + 1
    /\ UNCHANGED <<env, probe, tasks, loop>>
    /\ IF rejection(req).status # 0
       THEN /\ response' = rejection(req)
            /\ UNCHANGED <<baselines, models, forgotten>>
       ELSE IF ~decode_frame(req.frameB64).none /\ models.mp # "None"
               /\ req.frameB64.detector_throws
       THEN /\ response' = [status |-> 500, detail |-> "Analysis failed"]
            /\ UNCHANGED <<baselines, models, forgotten>>
       ELSE LET out == analyze_frame(baselines, models, req.sessionId, req.frameB64)
            IN  /\ response' = [status |-> 200, body |-> out.result]
                /\ baselines' = out.store
                /\ forgotten' = IF out.compared # {}
                                 THEN [s \in (DOMAIN forgotten) \ {req.sessionId} |->
                                          forgotten[s]]
                                 ELSE forgotten
                /\ models' = models_after(models, env,
                                 ~decode_frame(req.frameB64).none,
                                 Len(out.result.faces) > 0)

\* POST /api/sessions/{session_id}/clear-identity
clear_identity(session_id) ==
    /\ request' = [op |-> "clear", sessionId |-> session_id]
    /\ pre' = baselines
    /\ pre_forgotten' = forgotten
    /\ steps' = steps + 1
    /\ baselines' = clear_session(baselines, session_id)
    /\ forgotten' = [s \in (DOMAIN forgotten) \cup {session_id} |->
                        IF s # session_id THEN forgotten[s]
                        ELSE (IF s \in DOMAIN forgotten THEN forgotten[s] ELSE {})
                             \cup (IF s \in DOMAIN baselines
                                   THEN DOMAIN baselines[s] ELSE {})]
    /\ response' = [status |-> 200, body |-> [ok |-> TRUE, sessionId |-> session_id]]
    /\ UNCHANGED <<models, env, probe, tasks, loop>>

Init ==
    /\ baselines = NoBaselines
    /\ env \in Envs
    /\ models = startup(env)
    /\ request = NoRequest
    /\ response = NoResponse
    /\ pre = NoBaselines
    /\ forgotten = [s \in {} |-> {}]
    /\ pre_forgotten = [s \in {} |-> {}]
    /\ steps = 0
    /\ probe = NoProbe
    /\ tasks = [w \in Workers |-> NoTask]
    /\ loop = 0

AnalyzeFrame ==
    /\ steps < MaxSteps
    /\ \E req \in AnalyzeRequests : analyze_frame_endpoint(req)

ClearIdentity ==
    /\ steps < MaxSteps
    /\ \E s \in Sessions : clear_identity(s)

Next == AnalyzeFrame \/ ClearIdentity

Spec == Init /\ [][Next]_vars

\* ------------------------------------------------------------ SpecStream
\* One stream of frames per session, each frame showing one face, with the
\* classifiers available: longer histories of the tracker than Spec reaches.
StreamRequests ==
    { [op |-> "analyze", sessionId |-> s,
       frameB64 |-> Image(<<[score |-> 90, box |-> OkBox, crop |-> c,
                              fault |-> "none"]>>)] :
        s \in Sessions, c \in Crops }

InitStream ==
    /\ Init
    /\ \A m \in ModelNames : env[m]

StreamFrame ==
    /\ steps < MaxStream
    /\ \E req \in StreamRequests : analyze_frame_endpoint(req)

StreamClear ==
    /\ steps < MaxStream
    /\ \E s \in Sessions : clear_identity(s)

NextStream == StreamFrame \/ StreamClear

SpecStream == InitStream /\ [][NextStream]_vars

\* ---------------------------------------------------------- SpecAdapters
\* The classifier adapters, the face locator and the embedding called
\* directly: Init draws what the external model does on the crop (or the
\* detection, or the crop itself), the actions apply the function to it.

\* raw predictions: a grid over [0, 1] and every value around the two tiers
Predictions ==
    { p \in 0..PredUnit : p % 500 = 0 }
    \cup ((PredUnit - 10 * AuthLow - 12)..(PredUnit - 10 * AuthLow + 12))
    \cup ((PredUnit - 10 * AuthHigh - 12)..(PredUnit - 10 * AuthHigh + 12))

\* native score mappings of the emotion model
NativeScores == [Range(FerKeys) -> 0..MaxNativeScore]

DeepfakeProbes ==
    { [adapter |-> "deepfake", done |-> FALSE, model |-> m, throws |-> th,
       prediction |-> p] :
        m \in {"None", "loaded"}, th \in BOOLEAN, p \in Predictions }

EmotionProbes ==
    { [adapter |-> "emotion", done |-> FALSE, model |-> m, throws |-> th,
       emotions |-> em] :
        m \in {"None", "loaded"}, th \in BOOLEAN,
        em \in {<<>>} \cup { <<n>> : n \in NativeScores } }

\* relative boxes (percent of the frame, within [0, 1]) around the 20-pixel
\* limit and at the edges of a 100 x 100 frame
BoxStarts == {0, 45, 90, 100}
BoxSizes == {0, 13, 14, 30}
ProbeBoxes ==
    { [xmin |-> x, ymin |-> y, width |-> bw, height |-> bh] :
        x \in BoxStarts, y \in BoxStarts, bw \in BoxSizes, bh \in BoxSizes }

DetectProbes ==
    { [adapter |-> "detect", done |-> FALSE, model |-> m,
       img |-> Image(<<[score |-> sc, box |-> b, crop |-> BlackCrop,
                        fault |-> "none"]>>)] :
        m \in {"None", "loaded"}, sc \in {40, 90}, b \in ProbeBoxes }

\* face crops with a mid-grey level
EmbedCrops == [1..PixelCount -> {0, 128, 255}]

EmbedProbes ==
    { [adapter |-> "embed", done |-> FALSE, face_rgb |-> c] : c \in EmbedCrops }

InitAdapters ==
    /\ baselines = NoBaselines
    /\ env = [m \in ModelNames |-> TRUE]
    /\ models = startup(env)
    /\ request = NoRequest
    /\ response = NoResponse
    /\ pre = NoBaselines
    /\ forgotten = [s \in {} |-> {}]
    /\ pre_forgotten = [s \in {} |-> {}]
    /\ steps = 0
    /\ probe \in DeepfakeProbes \cup EmotionProbes \cup DetectProbes
                \cup EmbedProbes
    /\ tasks = [w \in Workers |-> NoTask]
    /\ loop = 0

ProbeDeepfake ==
    /\ probe.adapter = "deepfake"
    /\ ~probe.done
    /\ probe' = [adapter |-> "deepfake", done |-> TRUE, model |-> probe.model,
                 throws |-> probe.throws, prediction |-> probe.prediction,
                 out |-> analyze_deepfake(probe.model, probe.throws,
                                          probe.prediction)]
    /\ UNCHANGED <<baselines, models, env, request, response, pre, forgotten,
                   pre_forgotten, steps, tasks, loop>>

ProbeEmotion ==
    /\ probe.adapter = "emotion"
    /\ ~probe.done
    /\ probe' = [adapter |-> "emotion", done |-> TRUE, model |-> probe.model,
                 throws |-> probe.throws, emotions |-> probe.emotions,
                 out |-> analyze_emotion(probe.model, probe.throws,
                                         probe.emotions)]
    /\ UNCHANGED <<baselines, models, env, request, response, pre, forgotten,
                   pre_forgotten, steps, tasks, loop>>

ProbeDetect ==
    /\ probe.adapter = "detect"
    /\ ~probe.done
    /\ probe' = [adapter |-> "detect", done |-> TRUE, model |-> probe.model,
                 img |-> probe.img,
                 out |-> detect_faces(probe.model, probe.img)]
    /\ UNCHANGED <<baselines, models, env, request, response, pre, forgotten,
                   pre_forgotten, steps, tasks, loop>>

ProbeEmbed ==
    /\ probe.adapter = "embed"
    /\ ~probe.done
    /\ probe' = [adapter |-> "embed", done |-> TRUE,
                 face_rgb |-> probe.face_rgb,
                 out |-> compute_embedding(probe.face_rgb)]
    /\ UNCHANGED <<baselines, models, env, request, response, pre, forgotten,
                   pre_forgotten, steps, tasks, loop>>

NextAdapters == ProbeDeepfake \/ ProbeEmotion \/ ProbeDetect \/ ProbeEmbed

SpecAdapters == InitAdapters /\ [][NextAdapters]_vars

\* -------------------------------------------------------------- SpecConc
\* Frame requests in flight at once.  The handler is a coroutine (async def)
\* whose body never awaits: the event loop runs it from its first line to
\* its return before it runs another.  The handler is split where another
\* thread could otherwise run: before the baseline is read (lines 78-92 of
\* compare_to_baseline) and before it is written (lines 85, 115).

\* mutant: the handler declared with def, which the framework runs in a
\* thread pool, a thread per request
may_run_in_threadpool(running) == TRUE

\* whether the event loop can start a pending handler
may_run(running) == running = 0

\* frames of one session, each showing one face
ConcRequests == {req \in StreamRequests : req.sessionId = "s1"}

\* the request arrives and its handler is scheduled
Receive(w) ==
    /\ tasks[w].pc = "idle"
    /\ \E req \in ConcRequests :
          tasks' = [tasks EXCEPT ![w] = [NoTask EXCEPT !.pc = "pending",
                                                       !.req = req]]
    /\ UNCHANGED <<baselines, models, env, request, response, pre, forgotten,
                   pre_forgotten, steps, probe, loop>>

\* the handler starts and runs up to the call of compare_to_baseline
Enter(w) ==
    /\ tasks[w].pc = "pending"
    /\ may_run(loop)
    /\ tasks' = [tasks EXCEPT
          ![w].pc = "compare",
          ![w].queued = {v \in Workers \ {w} : tasks[v].pc = "pending"}]
    /\ loop' = w
    /\ UNCHANGED <<baselines, models, env, request, response, pre, forgotten,
                   pre_forgotten, steps, probe>>

\* compare_to_baseline looks the baseline up
ReadBaseline(w) ==
    /\ tasks[w].pc = "compare"
    /\ tasks' = [tasks EXCEPT
          ![w].pc = "update",
          ![w].found = read_baseline(baselines, tasks[w].req.sessionId, 0)]
    /\ UNCHANGED <<baselines, models, env, request, response, pre, forgotten,
                   pre_forgotten, steps, probe, loop>>

\* compare_to_baseline stores the new baseline and returns; the handler returns
WriteBaseline(w) ==
    /\ tasks[w].pc = "update"
    /\ LET req == tasks[w].req
           embedding == compute_embedding(req.frameB64.detections[1].crop)
       IN  /\ baselines' = store_put(baselines, req.sessionId, 0,
                               next_baseline(tasks[w].found, embedding))
           /\ tasks' = [tasks EXCEPT
                 ![w].pc = "done",
                 ![w].result = compare_return(tasks[w].found, embedding)]
    /\ loop' = IF loop = w THEN 0 ELSE loop
    /\ UNCHANGED <<models, env, request, response, pre, forgotten,
                   pre_forgotten, steps, probe>>

NextConc ==
    \E w \in Workers :
        Receive(w) \/ Enter(w) \/ ReadBaseline(w) \/ WriteBaseline(w)

\* the store when the requests arrive: empty, or left by one earlier frame
\* of the session
ConcStores ==
    {NoBaselines} \cup
    { analyze_frame(NoBaselines, startup([m \in ModelNames |-> TRUE]),
                    req.sessionId, req.frameB64).store :
          req \in {r \in ConcRequests :
                     \A j \in 1..PixelCount :
                         r.frameB64.detections[1].crop[j] = 255} }

InitConc ==
    /\ baselines \in ConcStores
    /\ pre = baselines
    /\ env = [m \in ModelNames |-> TRUE]
    /\ models = startup(env)
    /\ request = NoRequest
    /\ response = NoResponse
    /\ forgotten = [s \in {} |-> {}]
    /\ pre_forgotten = [s \in {} |-> {}]
    /\ steps = 0
    /\ probe = NoProbe
    /\ tasks = [w \in Workers |-> NoTask]
    /\ loop = 0

SpecConc == InitConc /\ [][NextConc]_vars

\* --------------------------------------------------------- SpecClearConc
\* SpecConc with a clear-identity request of the same session in flight.
\* Its handler is a coroutine without an await as well: the event loop runs
\* it as a whole, when no frame handler is running.  probe is the clear
\* request: its position and (history) the frame requests in flight when it
\* arrived and the frame handlers that had returned when it ran.

NoClear == [adapter |-> "clear", pc |-> "idle", inflight |-> {}, returned |-> {}]

InitClearConc ==
    /\ baselines \in ConcStores
    /\ pre = baselines
    /\ env = [m \in ModelNames |-> TRUE]
    /\ models = startup(env)
    /\ request = NoRequest
    /\ response = NoResponse
    /\ forgotten = [s \in {} |-> {}]
    /\ pre_forgotten = [s \in {} |-> {}]
    /\ steps = 0
    /\ probe = NoClear
    /\ tasks = [w \in Workers |-> NoTask]
    /\ loop = 0

\* the clear request arrives and its handler is scheduled
ReceiveClear ==
    /\ probe.adapter = "clear"
    /\ probe.pc = "idle"
    /\ probe' = [probe EXCEPT
          !.pc = "pending",
          !.inflight = {w \in Workers :
                          tasks[w].pc \in {"pending", "compare", "update"}}]
    /\ UNCHANGED <<baselines, models, env, request, response, pre, forgotten,
                   pre_forgotten, steps, tasks, loop>>

\* the clear handler runs: clear_session of the session of the frames
RunClear ==
    /\ probe.adapter = "clear"
    /\ probe.pc = "pending"
    /\ may_run(loop)
    /\ baselines' = clear_session(baselines, "s1")
    /\ probe' = [probe EXCEPT
          !.pc = "done",
          !.returned = {w \in Workers : tasks[w].pc = "done"}]
    /\ UNCHANGED <<models, env, request, response, pre, forgotten,
                   pre_forgotten, steps, tasks, loop>>

NextClearConc == NextConc \/ ReceiveClear \/ RunClear

SpecClearConc == InitClearConc /\ [][NextClearConc]_vars

\* ------------------------------------------------------------- SpecTrust
\* The trust computation of analyze_frame on primary-face values drawn from
\* the whole documented range of the adapters' outputs (in 1e-4 units).

TrustLevels == {0, 1, 2, 3, 2500, 4999, 5000, 5001, 8500, 9998, 9999, Unit4}

TrustProbes ==
    { [adapter |-> "trust", done |-> FALSE, auth_score |-> a, shift |-> s,
       emotion_conf |-> c, out |-> NoResult] :
          a \in TrustLevels, s \in TrustLevels, c \in TrustLevels }

InitTrust ==
    /\ baselines = NoBaselines
    /\ env = [m \in ModelNames |-> TRUE]
    /\ models = startup(env)
    /\ request = NoRequest
    /\ response = NoResponse
    /\ pre = NoBaselines
    /\ forgotten = [s \in {} |-> {}]
    /\ pre_forgotten = [s \in {} |-> {}]
    /\ steps = 0
    /\ probe \in TrustProbes
    /\ tasks = [w \in Workers |-> NoTask]
    /\ loop = 0

ProbeTrust ==
    /\ probe.adapter = "trust"
    /\ ~probe.done
    /\ probe' = [probe EXCEPT
          !.done = TRUE,
          !.out = LET beh == behavior_conf(probe.emotion_conf)
                  IN  [behavior |-> beh,
                       mean |-> trust_mean(probe.auth_score, probe.shift, beh),
                       trustScore |-> trust_score(probe.auth_score,
                                                  probe.shift, beh)]]
    /\ UNCHANGED <<baselines, models, env, request, response, pre, forgotten,
                   pre_forgotten, steps, tasks, loop>>

NextTrust == ProbeTrust

SpecTrust == InitTrust /\ [][NextTrust]_vars

\* -------------------------------------------------------------- SpecSwap
\* compare_to_baseline called directly for one (session, face slot): a first
\* embedding, then one other embedding on every later call.

\* a vector of EmbeddingDim components, given its first two
Vector(x, y) ==
    [i \in 1..EmbeddingDim |-> IF i = 1 THEN x ELSE IF i = 2 THEN y ELSE 0]

\* raw projections in directions the crops of Crops do not reach
SwapDirections ==
    { <<4, 3>>, <<3, 4>>, <<0, 1>>, <<-3, 4>>, <<-4, 3>>, <<-1, 0>>,
      <<0, -1>>, <<-4, -3>>, <<9, 2>>, <<8, 11>> }

\* what compute_embedding returns: the embeddings of the crops, and the
\* normalized vectors of the other directions
SwapEmbeddings ==
    { compute_embedding(c) : c \in Crops }
    \cup { L2Normalize(Vector(100 * d[1], 100 * d[2])) : d \in SwapDirections }

InitSwap ==
    /\ baselines = NoBaselines
    /\ env = [m \in ModelNames |-> TRUE]
    /\ models = startup(env)
    /\ request = NoRequest
    /\ response = NoResponse
    /\ pre = NoBaselines
    /\ forgotten = [s \in {} |-> {}]
    /\ pre_forgotten = [s \in {} |-> {}]
    /\ steps = 0
    /\ \E b \in SwapEmbeddings : \E e \in SwapEmbeddings \ {b} :
          probe = [adapter |-> "swap", first |-> b, embedding |-> e,
                   calls |-> 0, prev |-> NoResult, out |-> NoResult]
    /\ tasks = [w \in Workers |-> NoTask]
    /\ loop = 0

\* the first call for the slot, with the first embedding
SwapFirst ==
    /\ probe.adapter = "swap"
    /\ probe.calls = 0
    /\ LET r == compare_to_baseline(baselines, "s1", 0, probe.first)
       IN  /\ baselines' = r.store
           /\ probe' = [probe EXCEPT !.calls = 1, !.out = r.result]
    /\ pre' = baselines
    /\ UNCHANGED <<models, env, request, response, forgotten, pre_forgotten,
                   steps, tasks, loop>>

\* a later call, with the other embedding; prev is the result of the call
\* with that embedding before this one
SwapPresent ==
    /\ probe.adapter = "swap"
    /\ probe.calls >= 1
    /\ LET r == compare_to_baseline(baselines, "s1", 0, probe.embedding)
       IN  /\ baselines' = r.store
           /\ probe' = [probe EXCEPT
                 !.calls = 2,
                 !.prev = IF probe.calls = 2 THEN probe.out ELSE NoResult,
                 !.out = r.result]
    /\ pre' = baselines
    /\ UNCHANGED <<models, env, request, response, forgotten, pre_forgotten,
                   steps, tasks, loop>>

NextSwap == SwapFirst \/ SwapPresent

SpecSwap == InitSwap /\ [][NextSwap]_vars

\* the frames of the session keep coming
SpecSwapLive == SpecSwap /\ WF_vars(SwapFirst) /\ WF_vars(SwapPresent)

\* -------------------------------------------------------------- SpecLoad
\* The adapters called after startup in a deployment where some classifiers
\* cannot be built; probe.logged counts the "Failed to load" lines printed
\* for each classifier since the process started.

InitLoad ==
    /\ baselines = NoBaselines
    /\ env \in Envs
    /\ models = startup(env)
    /\ request = NoRequest
    /\ response = NoResponse
    /\ pre = NoBaselines
    /\ forgotten = [s \in {} |-> {}]
    /\ pre_forgotten = [s \in {} |-> {}]
    /\ steps = 0
    /\ probe = [adapter |-> "load", model |-> "none",
                logged |-> [m \in ModelNames |-> load_failures("None", env[m])],
                out |-> NoResult]
    /\ tasks = [w \in Workers |-> NoTask]
    /\ loop = 0

\* one adapter call: the loader of classifier m runs, then the adapter
\* returns out, computed with the singleton the loader returned
call_adapter(m, out) ==
    /\ steps < MaxCalls
    /\ probe.adapter = "load"
    /\ models' = [models EXCEPT ![m] = lazy_load(models[m], env[m])]
    /\ probe' = [adapter |-> "load", model |-> m,
                 logged |-> [probe.logged EXCEPT
                               ![m] = @ + load_failures(models[m], env[m])],
                 out |-> out]
    /\ steps' = steps + 1
    /\ UNCHANGED <<baselines, env, request, response, pre, forgotten,
                   pre_forgotten, tasks, loop>>

\* analyze_deepfake(face_crop)
CallDeepfake ==
    \E c \in Crops :
        call_adapter("mesonet",
            analyze_deepfake(lazy_load(models.mesonet, env.mesonet), FALSE,
                             mesonet_predict(c)))

\* analyze_emotion(face_crop)
CallEmotion ==
    \E c \in Crops :
        call_adapter("fer",
            analyze_emotion(lazy_load(models.fer, env.fer), FALSE,
                            fer_detect_emotions(c)))

\* detect_faces(frame_bgr)
CallDetect ==
    \E c \in Crops :
        call_adapter("mp",
            detect_faces(lazy_load(models.mp, env.mp),
                Image(<<[score |-> 90, box |-> OkBox, crop |-> c,
                         fault |-> "none"]>>)))

NextLoad == CallDeepfake \/ CallEmotion \/ CallDetect

SpecLoad == InitLoad /\ [][NextLoad]_vars

\* ================================================================ claims
\* The last request was a frame that analyze_frame answered.
Answered == request.op = "analyze" /\ response.status = 200

\* the detection a reported face comes from
DetectionOf(face) == request.frameB64.detections[face.faceId + 1]

\* a reported face for which compare_to_baseline ran
Compared(face) == DetectionOf(face).fault # "identity"

\* the embedding compare_to_baseline was given for a reported face
EmbeddingOf(face) == compute_embedding(DetectionOf(face).crop)

Trusted == [embeddingShift |-> 0, samePerson |-> TRUE, riskLevel |-> "low"]

\* C1: a compare_to_baseline call for a (session, face slot) without a stored
\* baseline stores the given embedding verbatim and returns shift 0,
\* samePerson true, risk "low", whatever the embedding is.
C1_FirstSightingTrusted ==
    Answered =>
        \A i \in 1..Len(response.body.faces) :
            LET face == response.body.faces[i]
                s == request.sessionId
                f == face.faceId
            IN  (Compared(face) /\ ~has_baseline(pre, s, f)) =>
                    /\ face.identity = Trusted
                    /\ has_baseline(baselines, s, f)
                    /\ baselines[s][f] = EmbeddingOf(face)

\* a first sighting of a nonzero embedding in a session that already holds
\* the baseline of another slot
C1_Witness ==
    /\ Answered
    /\ \E i \in 1..Len(response.body.faces) :
          LET face == response.body.faces[i]
              s == request.sessionId
          IN  /\ s \in DOMAIN pre
              /\ face.faceId \notin DOMAIN pre[s]
              /\ NormSq(baselines[s][face.faceId]) > 0
              /\ face.identity = Trusted

\* C2 (as claimed): a first sighting of E for (s, f) immediately followed by
\* another compare_to_baseline(s, f, E) yields shift ~ 0 (at most 0.01) and
\* risk "low" on the second call, for every embedding E.
C2_RepeatedEmbeddingIsLow ==
    [][ (Answered /\ Answered' /\ request'.sessionId = request.sessionId) =>
          \A i \in 1..Len(response.body.faces) :
          \A j \in 1..Len(response'.body.faces) :
            LET first == response.body.faces[i]
                second == response'.body.faces[j]
            IN  ( /\ first.faceId = second.faceId
                  /\ ~has_baseline(pre, request.sessionId, first.faceId)
                  /\ DetectionOf(first).crop
                        = request'.frameB64.detections[second.faceId + 1].crop
                  /\ DetectionOf(first).fault = "none"
                  /\ request'.frameB64.detections[second.faceId + 1].fault = "none" )
                =>  /\ second.identity.embeddingShift <= 100
                    /\ second.identity.riskLevel = "low" ]_vars

\* C3: after clearSession(s), the next compare_to_baseline(s, f, E) behaves as
\* a first sighting, for any face slot f and embedding E; and a cleared
\* session holds no baseline until then.
C3_ClearForgets ==
    /\ \A s \in DOMAIN forgotten :
          s \in DOMAIN baselines => DOMAIN baselines[s] = {}
    /\ (Answered /\ request.sessionId \in DOMAIN pre_forgotten) =>
          \A i \in 1..Len(response.body.faces) :
              LET face == response.body.faces[i]
              IN  Compared(face) =>
                    /\ face.identity = Trusted
                    /\ baselines[request.sessionId][face.faceId] = EmbeddingOf(face)

\* a slot whose baseline a clear dropped is seen again, with an embedding
\* that is not the baseline it had when it was cleared
C3_Witness ==
    /\ Answered
    /\ request.sessionId \in DOMAIN pre_forgotten
    /\ \E i \in 1..Len(response.body.faces) :
          LET face == response.body.faces[i]
          IN  /\ face.faceId \in pre_forgotten[request.sessionId]
              /\ face.identity = Trusted
              /\ NormSq(baselines[request.sessionId][face.faceId]) > 0

\* C4: every stored baseline has unit L2 norm (its square within 1% of 1.0),
\* after creation and after every update, unless it is the zero vector.
C4_BaselinesUnitNorm ==
    \A s \in DOMAIN baselines : \A f \in DOMAIN baselines[s] :
        LET n2 == NormSq(baselines[s][f])
        IN  n2 = 0 \/ Abs(n2 - ShiftUnit) * 100 <= ShiftUnit

\* a baseline that an update moved away from a unit baseline
C4_Witness ==
    /\ Answered
    /\ \E i \in 1..Len(response.body.faces) :
          LET s == request.sessionId
              f == response.body.faces[i].faceId
          IN  /\ has_baseline(pre, s, f)
              /\ NormSq(pre[s][f]) > 0
              /\ baselines[s][f] # pre[s][f]
              /\ response.body.faces[i].identity.embeddingShift > 2000

\* 1 - cosine similarity of two nonzero vectors, clamped to [0, 1], in units
\* of 1/ShiftUnit: the dot product divided by the two norms
TrueCosineShift(b, e) ==
    LET nb == Isqrt(NormSq(b))
        ne == Isqrt(NormSq(e))
        cos == RoundDiv(RoundDiv(Dot(b, e) * Scale, nb) * Scale, ne)
    IN  Max(0, Min(ShiftUnit, ShiftUnit - cos))

\* C6: on a non-first comparison the shift is clamp(1 - cosine similarity of
\* baseline and embedding, 0, 1) (within 2% where both vectors are nonzero,
\* and reported to 4 decimals); risk is "low" iff shift < 0.20, "medium" iff
\* 0.20 <= shift < 0.40, "high" iff shift >= 0.40; samePerson iff
\* shift < 0.25; samePerson with "medium" exactly for shift in [0.20, 0.25).
C6_ShiftTiers ==
    Answered =>
        \A i \in 1..Len(response.body.faces) :
            LET face == response.body.faces[i]
                s == request.sessionId
                f == face.faceId
            IN  (Compared(face) /\ has_baseline(pre, s, f)) =>
                LET b == pre[s][f]
                    e == EmbeddingOf(face)
                    shift == Max(0, Min(ShiftUnit, ShiftUnit - Dot(b, e)))
                    pct == shift * 100
                    id == face.identity
                IN  /\ (NormSq(b) > 0 /\ NormSq(e) > 0) =>
                          Abs(shift - TrueCosineShift(b, e)) * 50 <= ShiftUnit
                    /\ Abs(id.embeddingShift * (ShiftUnit \div Unit4) - shift) * 2
                          <= ShiftUnit \div Unit4
                    /\ (id.riskLevel = "low") <=> (pct < 20 * ShiftUnit)
                    /\ (id.riskLevel = "medium") <=>
                          (20 * ShiftUnit <= pct /\ pct < 40 * ShiftUnit)
                    /\ (id.riskLevel = "high") <=> (pct >= 40 * ShiftUnit)
                    /\ id.samePerson <=> (pct < 25 * ShiftUnit)
                    /\ (id.samePerson /\ id.riskLevel = "medium") <=>
                          (20 * ShiftUnit <= pct /\ pct < 25 * ShiftUnit)

\* a non-first comparison of two nonzero vectors whose shift is exactly 0.20:
\* samePerson together with "medium"
C6_Witness ==
    /\ Answered
    /\ \E i \in 1..Len(response.body.faces) :
          LET face == response.body.faces[i]
              s == request.sessionId
              f == face.faceId
          IN  /\ has_baseline(pre, s, f)
              /\ NormSq(pre[s][f]) > 0
              /\ ShiftUnit - Dot(pre[s][f], EmbeddingOf(face))
                    = 20 * (ShiftUnit \div 100)
              /\ face.identity.samePerson
              /\ face.identity.riskLevel = "medium"

\* the primary face's inputs to the trust score, and the response's outputs
TrustTerms ==
    LET p == response.body.faces[1]
    IN  [auth |-> p.deepfake.authenticityScore,
         shift |-> p.identity.embeddingShift,
         conf |-> p.emotion.confidence,
         beh |-> response.body.aggregated.confidenceLayers.behavior,
         trust |-> response.body.aggregated.trustScore]

\* C7 (as claimed): for a frame with a located face, trustScore is exactly
\* clamp((authenticity + 0.9 + (1 - shift) + 0.55 + 0.4 * emotionConfidence) / 4,
\* 0, 1) of the primary face's values.
C7_TrustExact ==
    (Answered /\ Len(response.body.faces) > 0) =>
        LET v == TrustTerms
            sum40 == 10 * (v.auth + 9000 + (10000 - v.shift)) + 55000 + 4 * v.conf
        IN  40 * v.trust = Max(0, Min(400000, sum40))

\* C7 (amended): behaviorConfidence is 0.55 + 0.4 * emotionConfidence rounded
\* to 4 decimals, and trustScore is (authenticity + 0.9 + (1 - shift) +
\* behaviorConfidence) / 4 rounded to 4 decimals, then clamped to [0, 1]; all
\* from the primary face (the first of the list) only.
C7_TrustRounded ==
    (Answered /\ Len(response.body.faces) > 0) =>
        LET v == TrustTerms
            sum == v.auth + 9000 + (10000 - v.shift) + v.beh
        IN  /\ Abs(10 * v.beh - (55000 + 4 * v.conf)) <= 5
            /\ v.trust \in 0..10000
            /\ \/ Abs(4 * v.trust - sum) <= 2
               \/ sum > 40000 /\ v.trust = 10000
               \/ sum < 0 /\ v.trust = 0

\* two faces that differ in authenticity and emotion confidence, and a trust
\* score that the rounding moved off the exact quotient
C7_Witness ==
    /\ Answered
    /\ Len(response.body.faces) = 2
    /\ LET p == response.body.faces[1]
           q == response.body.faces[2]
           v == TrustTerms
       IN  /\ p.deepfake.authenticityScore # q.deepfake.authenticityScore
           /\ p.emotion.confidence # q.emotion.confidence
           /\ 4 * v.trust # v.auth + 9000 + (10000 - v.shift) + v.beh

\* the canonical no-face response, written out
CanonicalNoFace(session_id) ==
    [sessionId |-> session_id, faces |-> <<>>,
     aggregated |->
        [emotion |-> [label |-> "Neutral", confidence |-> 0,
                      scores |-> [e \in {"Happy", "Neutral", "Angry", "Fear",
                                         "Surprise", "Sad"} |-> 0]],
         identity |-> [embeddingShift |-> 0, samePerson |-> TRUE,
                       riskLevel |-> "low"],
         deepfake |-> [authenticityScore |-> 10000, riskLevel |-> "low",
                       model |-> "MesoNet-4"],
         trustScore |-> 9500,
         confidenceLayers |-> [audio |-> 9000, video |-> 10000, behavior |-> 5500]]]

\* the last request was a well-formed frame request that located no face:
\* the payload did not decode, or the detector (unavailable, or run without
\* raising) reported no detection that survives the filters
NoFaceLocated ==
    /\ request.op = "analyze"
    /\ request.sessionId \notin {"", MissingField}
    /\ request.frameB64.kind \notin {"empty", "missing"}
    /\ \/ request.frameB64.kind # "image"
       \/ /\ ~(env["mp"] /\ request.frameB64.detector_throws)
          /\ detect_faces(IF env["mp"] THEN "loaded" ELSE "None",
                          request.frameB64) = <<>>

\* C8: a frame that yields zero located faces is answered, without an error,
\* by the canonical no-face response: no faces, trust 0.95, authenticity
\* 1.0/"low", shift 0/"low"/samePerson, "Neutral" with confidence 0, layers
\* audio 0.9, video 1.0, behavior 0.55.
C8_NoFaceCanonical ==
    NoFaceLocated =>
        /\ response.status = 200
        /\ response.body = CanonicalNoFace(request.sessionId)

\* the detector ran on a decoded image and none of its detections survived
C8_Witness ==
    /\ NoFaceLocated
    /\ env["mp"]
    /\ request.frameB64.kind = "image"
    /\ Len(request.frameB64.detections) = 2
    /\ response.status = 200
    /\ response.body.aggregated.trustScore = 9500

\* the deepfake adapter returned from a prediction of the model
Predicted ==
    /\ probe.adapter = "deepfake"
    /\ probe.done
    /\ probe.model # "None"
    /\ ~probe.throws

\* C9: when the model returns a prediction, riskLevel is "low" iff
\* authenticityScore > 0.85, "medium" iff 0.70 < authenticityScore <= 0.85,
\* "high" iff authenticityScore <= 0.70.
C9_DeepfakeTiers ==
    Predicted =>
        LET a == probe.out.authenticityScore
            risk == probe.out.riskLevel
        IN  /\ a \in 0..10000
            /\ (risk = "low") <=> (a > 8500)
            /\ (risk = "medium") <=> (7000 < a /\ a <= 8500)
            /\ (risk = "high") <=> (a <= 7000)

\* prediction 0.15: authenticity exactly 0.85 is "medium"
C9_Witness ==
    /\ Predicted
    /\ probe.prediction = 15000
    /\ probe.out.authenticityScore = 8500
    /\ probe.out.riskLevel = "medium"

\* the emotion adapter returned from a native score set with a positive score
Scored ==
    /\ probe.adapter = "emotion"
    /\ probe.done
    /\ probe.model # "None"
    /\ ~probe.throws
    /\ Len(probe.emotions) > 0
    /\ \E k \in DOMAIN probe.emotions[1] : probe.emotions[1][k] > 0

\* C10 (as claimed): when a native score is positive, the adapter's scores
\* over the 6 canonical labels sum to 1.0 within 1e-6 (less than the 1e-4
\* resolution of the returned values, so: exactly), the label is a key of
\* maximal score and the confidence is that score.
C10_ScoresSumToOne ==
    Scored =>
        LET scores == probe.out.scores
        IN  /\ DOMAIN scores = Range(EMOTION_LABELS)
            /\ SumTo([i \in 1..6 |-> scores[EMOTION_LABELS[i]]], 6) = Unit4
            /\ \A l \in DOMAIN scores : scores[l] <= scores[probe.out.label]
            /\ probe.out.confidence = scores[probe.out.label]

\* the handlers that returned, and those inside compare_to_baseline
Returned == {w \in Workers : tasks[w].pc = "done"}
Comparing == {w \in Workers : tasks[w].pc \in {"compare", "update"}}

\* the orders in which the handlers of a set can run one after the other
SerialOrders(W) ==
    {order \in [1..Cardinality(W) -> W] :
        \A i, j \in 1..Cardinality(W) : order[i] = order[j] => i = j}

RECURSIVE SerialRun(_, _)
\* the store and the identity results after the first n requests of order
\* were handled one at a time, each as a whole analyze_frame, from the store
\* the requests found on arrival
SerialRun(order, n) ==
    IF n = 0 THEN [store |-> pre, result |-> [w \in {} |-> NoResult]]
    ELSE LET before == SerialRun(order, n - 1)
             w == order[n]
             out == analyze_frame(before.store, models, tasks[w].req.sessionId,
                                  tasks[w].req.frameB64)
         IN  [store |-> out.store,
              result |-> [v \in (DOMAIN before.result) \cup {w} |->
                            IF v = w THEN out.result.faces[1].identity
                            ELSE before.result[v]]]

\* C5: frames processed concurrently never interleave inside
\* compare_to_baseline, and whenever no handler is inside it the store and
\* every returned identity result are those of handling the returned
\* requests one at a time in some order (no lost update, at most one first
\* sighting per slot).
C5_FramesSerialized ==
    /\ Cardinality(Comparing) <= 1
    /\ Comparing = {} =>
          \E order \in SerialOrders(Returned) :
              LET serial == SerialRun(order, Cardinality(Returned))
              IN  /\ baselines = serial.store
                  /\ \A w \in Returned : tasks[w].result = serial.result[w]

\* two frames of one session with different faces were both pending when
\* the first of them started, and both were compared against an existing
\* baseline
C5_Witness ==
    \E v, w \in Returned :
        /\ w \in tasks[v].queued
        /\ tasks[v].req.sessionId = tasks[w].req.sessionId
        /\ tasks[v].req.frameB64 # tasks[w].req.frameB64
        /\ tasks[v].result.embeddingShift > 0
        /\ tasks[w].result.embeddingShift > 0
        /\ Returned = Workers

\* the faces detect_faces locates in the last request's frame
Located ==
    IF request.op = "analyze" /\ request.frameB64.kind = "image"
    THEN detect_faces(IF env["mp"] THEN "loaded" ELSE "None", request.frameB64)
    ELSE <<>>

\* the last request was a well-formed frame request in which face i was located
\* and the call named fault raised on it
Raised(i, fault) ==
    /\ request.op = "analyze"
    /\ request.sessionId \notin {"", MissingField}
    /\ i \in 1..Len(Located)
    /\ Located[i].fault = fault

\* C11: an exception raised while computing the embedding or comparing to the
\* baseline for a face is mapped to shift 0, samePerson, "low" inside the
\* identity adapter; the frame is still answered, with every located face.
C11_IdentityFailsOpen ==
    \A i \in 1..MaxDetections :
        Raised(i, "identity") =>
            /\ response.status = 200
            /\ Len(response.body.faces) = Len(Located)
            /\ response.body.faces[i].faceId = Located[i].face_id
            /\ response.body.faces[i].identity = Trusted
            /\ \A k \in 1..Len(Located) :
                  response.body.faces[k].faceId = Located[k].face_id

\* the identity call raises on the first of two faces, whose slot holds a
\* baseline, and the second face is compared and found shifted
C11_Witness ==
    /\ Raised(1, "identity")
    /\ has_baseline(pre, request.sessionId, Located[1].face_id)
    /\ Len(response.body.faces) = 2
    /\ response.body.faces[1].identity = Trusted
    /\ response.body.faces[2].identity.embeddingShift > 0

\* C12: the deepfake adapter always returns: with the model unavailable,
\* authenticity 0.85, "low", tag "MesoNet-4 (unavailable)"; when the model
\* call raises, authenticity 0.85, "low", tag "MesoNet-4 (error)".
C12_DeepfakeFallback ==
    (probe.adapter = "deepfake" /\ probe.done) =>
        /\ probe.out.riskLevel \in {"low", "medium", "high"}
        /\ probe.model = "None" =>
              probe.out = [authenticityScore |-> 8500, riskLevel |-> "low",
                           model |-> "MesoNet-4 (unavailable)"]
        /\ (probe.model # "None" /\ probe.throws) =>
              probe.out = [authenticityScore |-> 8500, riskLevel |-> "low",
                           model |-> "MesoNet-4 (error)"]

\* the loaded model raised on a crop
C12_Witness ==
    /\ probe.adapter = "deepfake"
    /\ probe.done
    /\ probe.model = "loaded"
    /\ probe.throws
    /\ probe.out.model = "MesoNet-4 (error)"

\* C13: the emotion adapter always returns: with the model unavailable, when
\* it raises, or when it returns no result for the crop, label "Neutral",
\* confidence 0.5 and all 6 canonical labels at 0.
C13_EmotionFallback ==
    (probe.adapter = "emotion" /\ probe.done) =>
        /\ probe.out.label \in {"Happy", "Neutral", "Angry", "Fear", "Surprise", "Sad"}
        /\ (probe.model = "None" \/ probe.throws \/ probe.emotions = <<>>) =>
              probe.out =
                [label |-> "Neutral", confidence |-> 5000,
                 scores |-> [e \in {"Happy", "Neutral", "Angry", "Fear",
                                    "Surprise", "Sad"} |-> 0]]

\* the loaded emotion model found no face in the crop
C13_Witness ==
    /\ probe.adapter = "emotion"
    /\ probe.done
    /\ probe.model = "loaded"
    /\ ~probe.throws
    /\ probe.emotions = <<>>
    /\ probe.out.confidence = 5000

\* C14: a failure of one adapter for one face is contained: every located
\* face is reported, and each block of each face whose adapter is available
\* and did not raise on that face is what the adapter returns for that crop
\* (for identity: for that crop against the slot's baseline before the frame).
C14_ErrorsContained ==
    (Answered /\ Len(Located) > 0) =>
        /\ Len(response.body.faces) = Len(Located)
        /\ \A k \in 1..Len(Located) :
              LET face == response.body.faces[k]
                  crop == Located[k].crop
                  fault == Located[k].fault
              IN  /\ face.faceId = Located[k].face_id
                  /\ (env["mesonet"] /\ fault # "deepfake") =>
                        face.deepfake =
                            analyze_deepfake("loaded", FALSE, mesonet_predict(crop))
                  /\ (env["fer"] /\ fault # "emotion") =>
                        face.emotion =
                            analyze_emotion("loaded", FALSE, fer_detect_emotions(crop))
                  /\ fault # "identity" =>
                        face.identity =
                            compare_return(
                                read_baseline(pre, request.sessionId, face.faceId),
                                compute_embedding(crop))

\* the emotion call raises on the first of two faces: its deepfake and
\* identity blocks and the whole second face are the adapters' own results
C14_Witness ==
    /\ Answered
    /\ Len(Located) = 2
    /\ Located[1].fault = "emotion"
    /\ \A m \in ModelNames : env[m]
    /\ response.body.faces[1].emotion.confidence = 5000
    /\ response.body.faces[1].deepfake.model = "MesoNet-4"
    /\ response.body.faces[1].identity.embeddingShift > 0
    /\ response.body.faces[2].deepfake.model = "MesoNet-4"
    /\ response.body.faces[2].emotion.confidence > 5000

\* the last request was a frame request with an input error of the given kind
InputError(kinds) ==
    /\ request.op = "analyze"
    /\ \/ request.frameB64.kind \in kinds
       \/ ("session" \in kinds /\ request.sessionId \in {"", MissingField})

\* C15 (as claimed): a request whose image payload is malformed or empty, or
\* whose session id is missing or empty, is rejected with a 4xx status and
\* not answered with an analysis result.
C15_InputErrorsRejected ==
    InputError({"garbage", "empty", "missing", "session"}) =>
        response.status \in 400..499

\* C15 (amended): an absent or empty image payload and a missing or empty
\* session id are rejected with a 4xx status and leave the tracker alone; a
\* non-empty payload that does not decode, sent with a session id, is
\* answered 200 with the canonical no-face response.
C15_EmptyInputsRejected ==
    /\ InputError({"empty", "missing", "session"}) =>
          /\ response.status \in 400..499
          /\ baselines = pre
    /\ (InputError({"garbage"}) /\ ~InputError({"session"})) =>
          /\ response.status = 200
          /\ response.body.faces = <<>>
          /\ baselines = pre

\* a request without a session id is rejected while the tracker holds
\* baselines
C15_Witness ==
    /\ InputError({"session"})
    /\ request.frameB64.kind = "image"
    /\ request.sessionId = ""
    /\ response.status = 400
    /\ pre # NoBaselines

\* the part of a store that belongs to the given sessions
Restrict(store, sessions) ==
    [s \in (DOMAIN store) \cap sessions |-> store[s]]

\* C16: clearSession never fails; for an unknown or already-cleared session
\* it leaves the store unchanged; it removes nothing but its session; and
\* applying it again to the store it left changes nothing.
C16_ClearIdempotent ==
    request.op = "clear" =>
        LET s == request.sessionId
        IN  /\ response.status = 200
            /\ s \notin DOMAIN baselines
            /\ Restrict(baselines, Sessions \ {s}) = Restrict(pre, Sessions \ {s})
            /\ s \notin DOMAIN pre => baselines = pre
            /\ clear_session(baselines, s) = baselines

\* a session cleared before is cleared again while another session holds
\* baselines
C16_Witness ==
    /\ request.op = "clear"
    /\ request.sessionId \in DOMAIN pre_forgotten
    /\ request.sessionId \notin DOMAIN pre
    /\ pre # NoBaselines
    /\ baselines = pre

\* C17: an operation on session s creates, changes and removes no baseline of
\* another session t, and what a frame of s returns and stores is what it
\* would return and store if the store held the baselines of s alone.
C17_SessionsIndependent ==
    request.op \in {"analyze", "clear"} =>
        LET s == request.sessionId
        IN  /\ Restrict(baselines, Sessions \ {s}) = Restrict(pre, Sessions \ {s})
            /\ Answered =>
                  LET alone == analyze_frame(Restrict(pre, {s}), models, s,
                                             request.frameB64)
                  IN  /\ response.body = alone.result
                      /\ Restrict(baselines, {s}) = alone.store

\* a first sighting in one session of a slot for which another session holds
\* a baseline of a different, nonzero embedding
C17_Witness ==
    /\ Answered
    /\ Len(response.body.faces) > 0
    /\ request.sessionId \notin DOMAIN pre
    /\ \E t \in DOMAIN pre :
          /\ 0 \in DOMAIN pre[t]
          /\ NormSq(pre[t][0]) > 0
          /\ pre[t][0] # baselines[request.sessionId][0]
          /\ baselines[t] = pre[t]
    /\ response.body.faces[1].identity = Trusted

\* one side of the padded box of a detection, clamped to the image: the tight
\* side, 30% of it added at each end, cut at 0 and at the image's limit.
\* The image is 100 pixels on a side, so percent are pixels.
PaddedSide(start, size) ==
    LET pad == (size * 30) \div 100
        lo == IF start - pad < 0 THEN 0 ELSE start - pad
        hi == IF start + size + pad > 100 THEN 100 ELSE start + size + pad
    IN  IF hi > lo THEN hi - lo ELSE 0

\* C18: a detection whose padded, clamped box is empty or under 20 pixels in
\* width or height is not in the located-face list.
C18_SmallCropsSkipped ==
    (probe.adapter = "detect" /\ probe.done) =>
        LET box == probe.img.detections[1].box
        IN  (PaddedSide(box.xmin, box.width) < 20
                \/ PaddedSide(box.ymin, box.height) < 20)
            => probe.out = <<>>

\* a confident detection 30 pixels wide at the right edge, whose padded box
\* the clamping cuts to 19 pixels
C18_Witness ==
    /\ probe.adapter = "detect"
    /\ probe.done
    /\ probe.model = "loaded"
    /\ probe.img.detections[1].score = 90
    /\ probe.img.detections[1].box =
          [xmin |-> 90, ymin |-> 45, width |-> 30, height |-> 30]
    /\ probe.out = <<>>

\* the projection of a crop before it is normalized
RawProjection(face_rgb) ==
    [i \in 1..EmbeddingDim |->
        SumTo([j \in 1..Len(face_rgb) |->
                  projection(i, j) * RoundDiv(face_rgb[j] * Scale, 255)],
              Len(face_rgb))]

\* C19: compute_embedding returns a vector of L2 norm 1 (its square within
\* 1% of 1.0) when the raw projected vector is nonzero, and the zero vector
\* otherwise.
C19_EmbeddingUnitNorm ==
    (probe.adapter = "embed" /\ probe.done) =>
        IF NormSq(RawProjection(probe.face_rgb)) > 0
        THEN Abs(NormSq(probe.out) - ShiftUnit) * 100 <= ShiftUnit
        ELSE probe.out = [i \in 1..EmbeddingDim |-> 0]

\* a crop whose raw projection is neither zero nor of unit length
C19_Witness ==
    /\ probe.adapter = "embed"
    /\ probe.done
    /\ probe.face_rgb[1] = 128
    /\ NormSq(RawProjection(probe.face_rgb)) > 4 * ShiftUnit
    /\ NormSq(probe.out) > 0

\* one exponential-moving-average step from a baseline towards an embedding:
\* 0.9 * old + 0.1 * new, then re-normalized
EmaStep(old, new) ==
    L2Normalize([i \in 1..EmbeddingDim |-> 9 * old[i] + new[i]])

\* C20: a baseline that existed before an operation is afterwards either the
\* same, or one moving-average step from it towards the embedding of the face
\* a frame of its session showed in its slot, or gone because its session was
\* cleared; it is never replaced by the new embedding.
C20_BaselineOnlyEmaSteps ==
    \A s \in DOMAIN pre : \A f \in DOMAIN pre[s] :
        IF has_baseline(baselines, s, f)
        THEN \/ baselines[s][f] = pre[s][f]
             \/ /\ Answered
                /\ request.sessionId = s
                /\ \E i \in 1..Len(response.body.faces) :
                      LET face == response.body.faces[i]
                      IN  /\ face.faceId = f
                          /\ baselines[s][f] = EmaStep(pre[s][f], EmbeddingOf(face))
        ELSE request.op = "clear" /\ request.sessionId = s

\* a frame moved a nonzero baseline, and what is stored is neither the old
\* baseline nor the frame's embedding
C20_Witness ==
    /\ Answered
    /\ Len(response.body.faces) = 1
    /\ LET s == request.sessionId
           e == EmbeddingOf(response.body.faces[1])
       IN  /\ has_baseline(pre, s, 0)
           /\ NormSq(pre[s][0]) > 0
           /\ NormSq(e) > 0
           /\ baselines[s][0] \notin {pre[s][0], e}

\* C21: a non-first compare_to_baseline call stores the moving-average step
\* of the baseline it found, whatever tier and samePerson it returns, and
\* the shift it returns is measured against the baseline it found.
C21_UpdateWhateverTheResult ==
    (probe.adapter = "swap" /\ probe.calls = 2) =>
        LET b == pre["s1"][0]
            e == probe.embedding
            shift == Max(0, Min(ShiftUnit, ShiftUnit - Dot(b, e)))
        IN  /\ baselines["s1"][0] = EmaStep(b, e)
            /\ probe.out.embeddingShift = RoundHalfEven(shift, ShiftUnit \div Unit4)

\* a comparison of two nonzero vectors returned "high" and not samePerson,
\* and moved the baseline
C21_Witness ==
    /\ probe.adapter = "swap"
    /\ probe.calls = 2
    /\ probe.out.riskLevel = "high"
    /\ ~probe.out.samePerson
    /\ NormSq(pre["s1"][0]) > 0
    /\ NormSq(probe.embedding) > 0
    /\ baselines["s1"][0] # pre["s1"][0]

\* the last two calls both presented the swapped-in embedding
Repeated == probe.adapter = "swap" /\ probe.calls = 2 /\ probe.prev # NoResult

\* the calls with the swapped-in embedding return "low" and samePerson
Absorbed ==
    /\ probe.adapter = "swap"
    /\ probe.calls = 2
    /\ probe.out.riskLevel = "low"
    /\ probe.out.samePerson

\* C22 (as claimed): when, after a baseline exists, one other embedding is
\* presented on every later call, the returned shift never increases from a
\* call to the next (beyond 0.001, the resolution of the three-digit vector
\* components) and from some call on every call returns "low" and samePerson.
C22_SwapAbsorbed ==
    /\ [](Repeated => probe.out.embeddingShift <= probe.prev.embeddingShift + 10)
    /\ <>[]Absorbed

\* C27 (as claimed): in every result of a non-first comparison the tier and
\* samePerson are the thresholds applied to the reported embeddingShift (the
\* value rounded to 4 decimals): below 0.20 iff "low", at least 0.40 iff
\* "high", samePerson iff below 0.25.
C27_TiersOfReportedShift ==
    (probe.adapter = "swap" /\ probe.calls = 2) =>
        LET reported == probe.out.embeddingShift
        IN  /\ (probe.out.riskLevel = "low") <=> (reported * 100 < 20 * Unit4)
            /\ (probe.out.riskLevel = "high") <=> (reported * 100 >= 40 * Unit4)
            /\ probe.out.samePerson <=> (reported * 100 < 25 * Unit4)

\* a detection that passes the confidence threshold and the crop-size check
\* of a 100 x 100 frame
Kept(det) ==
    /\ det.score >= 50
    /\ PaddedSide(det.box.xmin, det.box.width) >= 20
    /\ PaddedSide(det.box.ymin, det.box.height) >= 20

\* C23: the aggregated view of a response with faces is that of faces[0],
\* the first detection in the detector's order that is kept, whatever the
\* confidences are: aggregated.emotion, .identity and .deepfake are the
\* blocks of faces[0], and confidenceLayers.video is its authenticityScore.
C23_PrimaryIsFirstFace ==
    (Answered /\ Len(response.body.faces) > 0) =>
        LET first == response.body.faces[1]
            agg == response.body.aggregated
            dets == request.frameB64.detections
        IN  /\ Kept(dets[first.faceId + 1])
            /\ \A n \in 1..first.faceId : ~Kept(dets[n])
            /\ agg.emotion = first.emotion
            /\ agg.identity = first.identity
            /\ agg.deepfake = first.deepfake
            /\ agg.confidenceLayers.video = first.deepfake.authenticityScore

\* the second of two faces is the more confident one and has another
\* deepfake block and another emotion block than the first
C23_Witness ==
    /\ Answered
    /\ Len(response.body.faces) = 2
    /\ LET p == response.body.faces[1]
           q == response.body.faces[2]
       IN  /\ q.confidence > p.confidence
           /\ q.deepfake # p.deepfake
           /\ q.emotion # p.emotion
           /\ response.body.aggregated.deepfake = p.deepfake

\* C24: the faceId of every returned face is the index of its detection in
\* the detector's output (the returned faces are the kept detections, in
\* order, so the ids are distinct and increasing), and the frame compares
\* and updates the baseline of each of these slots once: the stored baseline
\* is one compare_to_baseline step from the one before the frame, and no
\* other slot changes.
C24_FaceIdIsDetectionIndex ==
    Answered =>
        LET faces == response.body.faces
            dets == request.frameB64.detections
            s == request.sessionId
            ids == {faces[i].faceId : i \in 1..Len(faces)}
        IN  /\ \A i \in 1..Len(faces) :
                  LET n == faces[i].faceId + 1
                  IN  /\ n \in 1..Len(dets)
                      /\ Kept(dets[n])
                      /\ faces[i].confidence = dets[n].score * 100
                      /\ faces[i].bbox.w = dets[n].box.width
                      /\ dets[n].fault # "identity" =>
                            baselines[s][n - 1] =
                                IF has_baseline(pre, s, n - 1)
                                THEN EmaStep(pre[s][n - 1],
                                             compute_embedding(dets[n].crop))
                                ELSE compute_embedding(dets[n].crop)
            /\ \A i, k \in 1..Len(faces) :
                  i < k => faces[i].faceId < faces[k].faceId
            /\ Len(faces) > 0 =>
                  ids = {n - 1 : n \in {m \in 1..Len(dets) : Kept(dets[m])}}
            /\ \A f \in FaceIds \ ids :
                  /\ has_baseline(baselines, s, f) <=> has_baseline(pre, s, f)
                  /\ has_baseline(pre, s, f) => baselines[s][f] = pre[s][f]

\* the detector's first detection is dropped and its second is returned as
\* face 1, compared against the baseline of slot 1
C24_Witness ==
    /\ Answered
    /\ request.frameB64.kind = "image"
    /\ Len(request.frameB64.detections) = 2
    /\ Len(response.body.faces) = 1
    /\ response.body.faces[1].faceId = 1
    /\ has_baseline(pre, request.sessionId, 1)
    /\ ~has_baseline(pre, request.sessionId, 0)
    /\ baselines[request.sessionId][1] # pre[request.sessionId][1]

\* what each adapter returns when its classifier is unavailable
UnavailableFallback(m) ==
    IF m = "mesonet" THEN analyze_deepfake("None", FALSE, 0)
    ELSE IF m = "fer" THEN EmotionFallback
    ELSE <<>>

\* C25 (as claimed): a classifier's failure to initialize is logged once:
\* every later adapter call while it is unavailable returns the adapter's
\* fallback and logs no further initialization failure.
C25_LoadFailureLoggedOnce ==
    probe.adapter = "load" =>
        /\ \A m \in ModelNames : probe.logged[m] <= 1
        /\ (probe.model \in ModelNames /\ ~env[probe.model]) =>
              probe.out = UnavailableFallback(probe.model)

\* the tier of an authenticity score (in units of 1/Unit4) under the
\* adapter's thresholds: above 0.85 low, above 0.70 medium, else high
TierOfScore(a) ==
    IF a > 8500 THEN "low" ELSE IF a > 7000 THEN "medium" ELSE "high"

\* C28 (as claimed): in every output of the deepfake adapter, the fallbacks
\* included, riskLevel is the tier of the returned authenticityScore.
C28_RiskIsTierOfScore ==
    (probe.adapter = "deepfake" /\ probe.done) =>
        probe.out.riskLevel = TierOfScore(probe.out.authenticityScore)

\* C28 (amended): an output computed from a prediction has the tier of its
\* authenticityScore as riskLevel; the unavailable and error fallbacks
\* return authenticityScore 0.85 with riskLevel "low", which is not the tier
\* of 0.85.
C28_RiskIsTierUnlessFallback ==
    (probe.adapter = "deepfake" /\ probe.done) =>
        IF probe.out.model = "MesoNet-4"
        THEN probe.out.riskLevel = TierOfScore(probe.out.authenticityScore)
        ELSE /\ probe.model = "None" \/ probe.throws
             /\ probe.out.authenticityScore = 8500
             /\ probe.out.riskLevel = "low"
             /\ TierOfScore(probe.out.authenticityScore) = "medium"

\* prediction 0.14996: 1 - prediction is above 0.85, the returned
\* authenticityScore is 0.85 and the tier is that of the returned score
C28_Witness ==
    /\ Predicted
    /\ probe.prediction = 14996
    /\ probe.out.authenticityScore = 8500
    /\ probe.out.riskLevel = "medium"

\* C26: a frame answered with the no-face response leaves the store as it
\* was (no session entry, no baseline created, changed or removed), and a
\* session gets its entry only from a frame of that session in which a face
\* is analyzed.
C26_NoFaceLeavesStore ==
    /\ (Answered /\ Len(response.body.faces) = 0) => baselines = pre
    /\ \A s \in (DOMAIN baselines) \ (DOMAIN pre) :
          /\ Answered
          /\ request.sessionId = s
          /\ \E i \in 1..Len(response.body.faces) :
                response.body.faces[i].faceId \in DOMAIN baselines[s]

\* a frame whose only detection is dropped, for a session without an entry,
\* while another session has baselines
C26_Witness ==
    /\ Answered
    /\ request.frameB64.kind = "image"
    /\ Len(request.frameB64.detections) = 1
    /\ Len(response.body.faces) = 0
    /\ pre # NoBaselines
    /\ request.sessionId \notin DOMAIN pre
    /\ request.sessionId \notin DOMAIN baselines

RECURSIVE RunAfterClear(_, _)
\* the store after the first n requests of order were handled one at a time
\* from a store without the session
RunAfterClear(order, n) ==
    IF n = 0 THEN NoBaselines
    ELSE analyze_frame(RunAfterClear(order, n - 1), models,
                       tasks[order[n]].req.sessionId,
                       tasks[order[n]].req.frameB64).store

\* the clear and every frame request that arrived have finished
AllFinished ==
    /\ probe.adapter = "clear"
    /\ probe.pc = "done"
    /\ \A w \in Workers : tasks[w].pc \in {"idle", "done"}

\* C29: when a clear of session s and frames of s are in flight together,
\* every frame handler returns an identity result, and once all have
\* finished the store holds for s only what the frames handled after the
\* clear built from nothing: no entry, or baselines that started as first
\* sightings after the clear.
C29_ClearDuringFrame ==
    /\ \A w \in Returned : tasks[w].result.riskLevel \in {"low", "medium", "high"}
    /\ AllFinished =>
          \E order \in SerialOrders(Returned \ probe.returned) :
              baselines = RunAfterClear(order, Cardinality(Returned \ probe.returned))

\* the clear arrived while two frames were in flight and the store held a
\* baseline; one frame was handled before the clear and one after it
C29_Witness ==
    /\ AllFinished
    /\ pre # NoBaselines
    /\ probe.inflight = Workers
    /\ Cardinality(probe.returned) = 1
    /\ Returned = Workers
    /\ "s1" \in DOMAIN baselines
    /\ NormSq(baselines["s1"][0]) > 0
    /\ baselines["s1"][0] # pre["s1"][0]

\* C30: for authenticityScore, embeddingShift and emotion confidence each in
\* [0, 1], the rounded mean of the four signals lies in [0.3625, 0.9625]
\* before the clamp, so the clamp leaves it unchanged and trustScore is
\* within [0, 1].
C30_ClampNeverActs ==
    (probe.adapter = "trust" /\ probe.done) =>
        /\ probe.out.mean >= 3625
        /\ probe.out.mean <= 9625
        /\ probe.out.trustScore = probe.out.mean
        /\ probe.out.trustScore >= 0
        /\ probe.out.trustScore <= Unit4

\* the lowest trust score: authenticity 0, shift 1, emotion confidence 0
C30_Witness ==
    /\ probe.adapter = "trust"
    /\ probe.done
    /\ probe.auth_score = 0
    /\ probe.shift = Unit4
    /\ probe.emotion_conf = 0
    /\ probe.out.mean = 3625
    /\ probe.out.trustScore = 3625

====
